---- MODULE Spec2Model ----
(***************************************************************************)
(* WindowPoSt partition scheduler (package window): the chain-head watcher *)
(* processHeadChange, the bidding admitter CanAccept and the partition     *)
(* prover Do of WdPostTask, over the tables wdpost_partition_tasks,        *)
(* wdpost_proofs, harmony_test and harmony_task_history.                   *)
(***************************************************************************)
EXTENDS Integers, Sequences, FiniteSets, TLC

(***************************************************************************)
(* Protocol constants handed to dline.NewInfo by NewDeadlineInfo.          *)
(***************************************************************************)
WPoStPeriodDeadlines == 48
WPoStProvingPeriod == 2880
WPoStChallengeWindow == 60
WPoStChallengeLookback == 20
FaultDeclarationCutoff == 70
\* TypeDetails().MaxFailures
MaxFailures == 5
\* the bid of a task past its proving period
StaleBid == 1000
\* the constant of the urgency bid len(tasks) + 10 - idx
BidBase == 10

(***************************************************************************)
(* Bounds of the model.                                                    *)
(***************************************************************************)
\* tracked miners are ActorBase .. ActorBase + NumActors - 1
ActorBase == 1000
NumActors == 2
\* miner ActorBase + i starts its first proving period at epoch i * StartGap
StartGap == 2900
\* chain heights: HeightStep * 1..MaxSteps, and one height in the next period
HeightStep == 70
MaxSteps == 2
\* a miner has at most MaxParts partitions in a deadline
MaxParts == 2
\* rows wdpost_partition_tasks may hold
MaxTasks == 2
\* rows harmony_test may hold
MaxTests == 1
\* tasks of one CanAccept batch, and history rows with result = false of one task
MaxBatch == 3
MaxHist == 1
\* failed Do executions in one behaviour
MaxFaults == 1
\* the parallel argument is 0..MaxParallel; proof executions of one process
MaxParallel == 1
MaxProvers == 2
\* sectors of a partition
MaxSectors == 3
\* prover invocations of one DoPartition (the bound of the skipped-sector loop)
MaxProverCalls == 2

Actors == {ActorBase + i : i \in 0..(NumActors - 1)}
Heights == {k * HeightStep : k \in 1..MaxSteps} \cup {WPoStProvingPeriod + HeightStep}
\* the tipsets of the canonical chain (f = 0), and a rival tipset (f = 1) at the
\* last height of the first period
TipSets == [h : Heights, f : {0}] \cup [h : {MaxSteps * HeightStep}, f : {1}]

Perms(S) == {s \in [1..Cardinality(S) -> S] : \A i, j \in DOMAIN s : i /= j => s[i] /= s[j]}

(***************************************************************************)
(* dline.Info as NewDeadlineInfo builds it, and its predicates.            *)
(***************************************************************************)
NewDeadlineInfo(periodStart, deadlineIdx, currEpoch) ==
    IF deadlineIdx < WPoStPeriodDeadlines
    THEN LET deadlineOpen == periodStart + deadlineIdx * WPoStChallengeWindow
         IN [CurrentEpoch |-> currEpoch, PeriodStart |-> periodStart, Index |-> deadlineIdx,
             Open |-> deadlineOpen, Close |-> deadlineOpen + WPoStChallengeWindow,
             Challenge |-> deadlineOpen - WPoStChallengeLookback,
             FaultCutoff |-> deadlineOpen - FaultDeclarationCutoff,
             WPoStProvingPeriod |-> WPoStProvingPeriod]
    ELSE LET afterLastDeadline == periodStart + WPoStProvingPeriod
         IN [CurrentEpoch |-> currEpoch, PeriodStart |-> periodStart, Index |-> deadlineIdx,
             Open |-> afterLastDeadline, Close |-> afterLastDeadline,
             Challenge |-> afterLastDeadline, FaultCutoff |-> 0,
             WPoStProvingPeriod |-> WPoStProvingPeriod]

PeriodStarted(di) == di.CurrentEpoch >= di.PeriodStart

PeriodElapsed(di) == di.CurrentEpoch >= di.PeriodStart + di.WPoStProvingPeriod

(***************************************************************************)
(* The chain RPC surface (WDPoStAPI), read at a tipset key.                *)
(***************************************************************************)
FirstPeriodStart(m) == (m - ActorBase) * StartGap

\* the miner's current proving deadline at tipset tsk
StateMinerProvingDeadline(m, tsk) ==
    LET p0 == FirstPeriodStart(m)
    IN IF tsk.h < p0
       THEN NewDeadlineInfo(p0, 0, tsk.h)
       ELSE NewDeadlineInfo(p0 + WPoStProvingPeriod * ((tsk.h - p0) \div WPoStProvingPeriod),
                            ((tsk.h - p0) % WPoStProvingPeriod) \div WPoStChallengeWindow,
                            tsk.h)

\* the number of partitions of (m, dlIdx) at tipset tsk; it differs between forks
StateMinerPartitions(m, dlIdx, tsk) == IF tsk.f = 0 THEN 1 ELSE MaxParts

\* the tipset at height h on the chain of tsk; none above tsk itself
ChainGetTipSetAtHead(h, tsk) == [ok |-> TRUE, h |-> tsk.h, f |-> tsk.f]
ChainGetTipSetAfterHeight(h, tsk) ==
    IF h > tsk.h THEN [ok |-> FALSE, h |-> h, f |-> tsk.f]
    ELSE [ok |-> TRUE, h |-> h, f |-> tsk.f]

VARIABLES
    head,                     \* the chain head (a tipset key)
    wdpost_partition_tasks,   \* rows [task_id, sp_id, proving_period_start, deadline_index, partition_index]
    harmony_task,             \* ids of the tasks the runtime still holds
    harmony_task_history,     \* task id -> number of history rows with result = false
    harmony_test,             \* task id -> result, for the test tasks
    wdpost_proofs,            \* proof row -> number of rows of wdpost_proofs equal to it
    owned,                    \* the task assigned to this worker, 0 when none
    ret,                      \* what the last operation returned
    parallel,                 \* the constructor's parallel argument and the channel t.parallel
    execs                     \* the proof executions of this process inside DoPartition

vars == <<head, wdpost_partition_tasks, harmony_task, harmony_task_history,
          harmony_test, wdpost_proofs, owned, ret, parallel, execs>>

NoRet == [op |-> "none"]

wdTaskIdentity(row) ==
    [SpID |-> row.sp_id, ProvingPeriodStart |-> row.proving_period_start,
     DeadlineIndex |-> row.deadline_index, PartitionIndex |-> row.partition_index]

Identities(table) == {wdTaskIdentity(r) : r \in table}

\* NewWdPostTask: if parallel > 0 { t.parallel = make(chan struct{}, parallel) }
NewGateOneMore(n) ==
    [arg |-> n, open |-> n > 0, cap |-> IF n > 0 THEN n + 1 ELSE 0, held |-> 0]
NewGate(n) ==
    [arg |-> n, open |-> n > 0, cap |-> IF n > 0 THEN n ELSE 0, held |-> 0]

\* the proof executions a process may run at once, and the sectors of a partition
Provers == 1..MaxProvers
Sectors == 1..MaxSectors

\* an execution that is not inside DoPartition
IdleExec == [pc |-> "idle", calls |-> 0, challenged |-> {}, skipped |-> {},
             last |-> {}, out |-> "none"]

Init ==
    /\ parallel = NewGate(MaxParallel)
    /\ execs = [e \in Provers |-> IdleExec]
    /\ head \in TipSets
    /\ wdpost_partition_tasks = {}
    /\ harmony_task = {}
    /\ harmony_task_history = <<>>
    /\ harmony_test = <<>>
    /\ wdpost_proofs = <<>>
    /\ owned = 0
    /\ ret = NoRet

(***************************************************************************)
(* The durable task runtime's task factory (harmonytask.AddTaskFunc) and   *)
(* the callback addTaskToDB it runs inside a transaction.                  *)
(***************************************************************************)
\* the store as a transaction sees it: the partition-task table and the runtime's tasks
Store(table, live) == [tasks |-> table, live |-> live]

\* task ids come from the runtime's sequence; every id ever committed still has its identity row
NewTaskID(table) == Cardinality(table) + 1

\* the table's uniqueness rule on (sp_id, proving_period_start, deadline_index, partition_index)
IdentityConflict(table, taskIdent) == taskIdent \in Identities(table)

PartitionTaskRow(taskId, taskIdent) ==
    [task_id |-> taskId, sp_id |-> taskIdent.SpID,
     proving_period_start |-> taskIdent.ProvingPeriodStart,
     deadline_index |-> taskIdent.DeadlineIndex,
     partition_index |-> taskIdent.PartitionIndex]

\* a callback that inserts whatever the table already holds
addTaskToDBNoConflict(taskId, taskIdent, table) ==
    [commit |-> TRUE, err |-> "nil", table |-> table \cup {PartitionTaskRow(taskId, taskIdent)}]

\* the INSERT and the verdict: (true, nil), or (false, err) when the INSERT fails
addTaskToDB(taskId, taskIdent, table) ==
    IF IdentityConflict(table, taskIdent)
    THEN [commit |-> FALSE, err |-> "insert partition task", table |-> table]
    ELSE [commit |-> TRUE, err |-> "nil", table |-> table \cup {PartitionTaskRow(taskId, taskIdent)}]

\* tf(func(id, tx) { return t.addTaskToDB(id, tid, tx) }): one transaction, committed
\* on a true verdict and rolled back (task id included) otherwise
AddTaskFunc(db, taskIdent) ==
    LET id == NewTaskID(db.tasks)
        r == addTaskToDB(id, taskIdent, db.tasks)
    IN IF r.commit THEN Store(r.table, db.live \cup {id}) ELSE db

(***************************************************************************)
(* processHeadChange: the chain-head watcher.                              *)
(***************************************************************************)
NoFail == [at |-> 0, kind |-> "none", p |-> 0]

\* the RPC of the invocation that fails, if any: at miner `at`, StateMinerProvingDeadline,
\* StateMinerPartitions, or windowPoStTF.Val returning nil at partition p
WatcherFails ==
    {NoFail} \cup [at : Actors, kind : {"deadline", "partitions"}, p : {0}]
             \cup [at : Actors, kind : {"taskfunc"}, p : 0..(MaxParts - 1)]

\* the orders in which ranging over the map t.actors may yield the miners
ActorOrders == Perms(Actors)

\* the reverted tipset handed over with an applied one: none, or its rival on another fork
Reverted(apply) == {"nil"} \cup {ts \in TipSets : ts.h = apply.h /\ ts.f /= apply.f}

\* tid := wdTaskIdentity{SpID: aid, ProvingPeriodStart: di.PeriodStart, ...}
TaskIdentityNextDeadline(aid, di, pidx) ==
    [SpID |-> aid, ProvingPeriodStart |-> di.PeriodStart,
     DeadlineIndex |-> di.Index + 1, PartitionIndex |-> pidx]
TaskIdentity(aid, di, pidx) ==
    [SpID |-> aid, ProvingPeriodStart |-> di.PeriodStart,
     DeadlineIndex |-> di.Index, PartitionIndex |-> pidx]

RECURSIVE ProposePartitions(_, _, _, _, _, _)
\* for pidx := range partitions
ProposePartitions(db, aid, di, pidx, n, tfNilAt) ==
    IF pidx >= n THEN [db |-> db, err |-> "nil"]
    ELSE IF pidx = tfNilAt THEN [db |-> db, err |-> "no task func"]
    ELSE LET tid == TaskIdentity(aid, di, pidx)
         IN ProposePartitions(AddTaskFunc(db, tid), aid, di, pidx + 1, n, tfNilAt)

RECURSIVE VisitActors(_, _, _, _)
\* for act := range t.actors, in the order the map iteration yields them
VisitActors(db, order, apply, fail) ==
    IF order = <<>> THEN [db |-> db, err |-> "nil"]
    ELSE LET act == Head(order)
             failing == fail.at = act
             di == StateMinerProvingDeadline(act, apply)
         IN IF failing /\ fail.kind = "deadline" THEN [db |-> db, err |-> "proving deadline"]
            ELSE IF ~PeriodStarted(di) THEN [db |-> db, err |-> "nil"]
            ELSE IF failing /\ fail.kind = "partitions" THEN [db |-> db, err |-> "getting partitions"]
            ELSE LET r == ProposePartitions(db, act, di, 0,
                                            StateMinerPartitions(act, di.Index, apply),
                                            IF failing /\ fail.kind = "taskfunc" THEN fail.p ELSE -1)
                 IN IF r.err /= "nil" THEN r
                    ELSE VisitActors(r.db, Tail(order), apply, fail)

\* the invocations on one applied tipset that returned nil in a row: the identities
\* the table held after the first of them, and whether this one is a repetition
SameKeyRun(apply, err, table) ==
    IF err = "nil" /\ ret.op = "processHeadChange" /\ ret.err = "nil" /\ ret.apply = apply
    THEN [first |-> ret.run.first, rows |-> ret.run.rows, again |-> TRUE]
    ELSE [first |-> Identities(table), rows |-> Cardinality(table), again |-> FALSE]

processHeadChange(revert, apply, order, fail) ==
    LET r == VisitActors(Store(wdpost_partition_tasks, harmony_task), order, apply, fail)
    IN /\ Cardinality(r.db.tasks) <= MaxTasks
       /\ wdpost_partition_tasks' = r.db.tasks
       /\ harmony_task' = r.db.live
       /\ ret' = [op |-> "processHeadChange", apply |-> apply, err |-> r.err,
                  run |-> SameKeyRun(apply, r.err, r.db.tasks)]
       /\ UNCHANGED <<parallel, execs, head, harmony_task_history, harmony_test, wdpost_proofs, owned>>

\* the chain scheduler calls the handler with the applied head and the reverted tipset
Watcher ==
    \E revert \in Reverted(head), order \in ActorOrders, fail \in WatcherFails :
        processHeadChange(revert, head, order, fail)

\* the identities the watcher of a process proposes on applied tipset tsk
Proposals(tsk) ==
    UNION {{[SpID |-> m, ProvingPeriodStart |-> StateMinerProvingDeadline(m, tsk).PeriodStart,
             DeadlineIndex |-> StateMinerProvingDeadline(m, tsk).Index, PartitionIndex |-> p] :
                p \in 0..(StateMinerPartitions(m, StateMinerProvingDeadline(m, tsk).Index, tsk) - 1)} :
           m \in {a \in Actors : PeriodStarted(StateMinerProvingDeadline(a, tsk))}}

\* one proposal of the watcher of another worker process: its own transaction
RemotePropose ==
    \E tid \in Proposals(head) :
        LET db == AddTaskFunc(Store(wdpost_partition_tasks, harmony_task), tid)
        IN /\ Cardinality(db.tasks) <= MaxTasks
           /\ wdpost_partition_tasks' = db.tasks
           /\ harmony_task' = db.live
           /\ ret' = [op |-> "tf", tid |-> tid, before |-> wdpost_partition_tasks,
                      live |-> harmony_task]
           /\ UNCHANGED <<parallel, execs, head, harmony_task_history, harmony_test, wdpost_proofs, owned>>

(***************************************************************************)
(* CanAccept: the bidding admitter.                                        *)
(***************************************************************************)
Range(s) == {s[i] : i \in DOMAIN s}

\* SELECT COUNT(*) FROM harmony_task_history WHERE task_id = id AND result = false
FailCount(hist, id) == IF id \in DOMAIN hist THEN hist[id] ELSE 0

\* r after the history query: the count it scanned, 0 when the query failed (the
\* error is logged and the bid is still returned)
HistoryCountDespiteError(hist, histErr, id) == FailCount(hist, id)
HistoryCount(hist, histErr, id) == IF id \in histErr THEN 0 ELSE FailCount(hist, id)

\* the rows the batched Select loads: those whose task_id is among ids
SelectTasksAll(table, ids) == table
SelectTasks(table, ids) == {r \in table : r.task_id \in Range(ids)}

\* tasks[i].dlInfo
dlInfo(r, ts) == NewDeadlineInfo(r.proving_period_start, r.deadline_index, ts.h)

\* the orders sort.Slice may leave: ascending in Open, equal Opens in any order
SortSliceNone(tasks, ts) == {tasks}
SortSlice(tasks, ts) ==
    {s \in Perms(Range(tasks)) :
        \A i, j \in DOMAIN s : i < j => dlInfo(s[i], ts).Open <= dlInfo(s[j], ts).Open}

\* lo.Filter(tasks, ... PeriodElapsed())
PastDeadlineAll(tasks, ts) == tasks
PastDeadline(tasks, ts) == SelectSeq(tasks, LAMBDA r : PeriodElapsed(dlInfo(r, ts)))

StaleBidsNone(f) == <<>>
StaleBids(f) == [i \in 1..Len(f) |-> [TaskID |-> f[i].task_id, Bid |-> StaleBid]]

\* bid := len(tasks) + 10 - idx, idx counted from 0
BaseBidRising(n, idx) == n + BidBase + idx
BaseBidFlat(n, idx) == n + BidBase
BaseBid(n, idx) == n + BidBase - idx

\* bid -= r, r the failure count the history query gave
FinalBidAdded(bid, r) == bid + r
FinalBid(bid, r) == bid - r

\* lo.Map over the sorted tasks; histErr holds the ids whose history query fails (r stays 0)
UrgencyBids(sorted, hist, histErr) ==
    [i \in 1..Len(sorted) |->
        [TaskID |-> sorted[i].task_id,
         Bid |-> FinalBid(BaseBid(Len(sorted), i - 1),
                          HistoryCount(hist, histErr, sorted[i].task_id))]]

\* rdy, err := t.paramsReady()
paramsReadyOrError(fail) ==
    [rdy |-> fail /= "notReady",
     err |-> IF fail \in {"paramsErr", "notReady"} THEN "failed to setup params" ELSE "nil"]
paramsReady(fail) ==
    [rdy |-> fail /= "notReady",
     err |-> IF fail = "paramsErr" THEN "failed to setup params" ELSE "nil"]

\* in: fail (the call that fails or declines, "none" otherwise), tasks (the rows in the
\* order the Select returned them), sorted (the order sort.Slice left), histErr
CanAcceptRun(in, ts, hist) ==
    IF paramsReady(in.fail).err /= "nil" THEN [res |-> <<>>, err |-> paramsReady(in.fail).err]
    ELSE IF ~paramsReady(in.fail).rdy THEN [res |-> <<>>, err |-> "nil"]
    ELSE IF in.fail = "chainHead" THEN [res |-> <<>>, err |-> "chain head"]
    ELSE IF in.fail = "select" THEN [res |-> <<>>, err |-> "select"]
    ELSE LET f == PastDeadline(in.tasks, ts)
         IN IF Len(f) > 0
            THEN [res |-> StaleBids(f), err |-> "nil"]
            ELSE [res |-> UrgencyBids(in.sorted, hist, in.histErr), err |-> "nil"]

\* the outcomes of the calls CanAccept makes, for a batch ids
CanAcceptInputs(ids, table, ts) ==
    [fail : {"paramsErr", "notReady", "chainHead", "select"},
     tasks : {<<>>}, sorted : {<<>>}, histErr : {{}}]
    \cup UNION {[fail : {"none"}, tasks : {sel}, sorted : SortSlice(sel, ts),
                 histErr : {{}} \cup {{id} : id \in Range(ids)}] :
                    sel \in Perms(SelectTasks(table, ids))}

\* the batches the runtime may offer: up to MaxBatch of the tasks it holds, in any order
Batches(pending) ==
    UNION {Perms(S) : S \in {T \in SUBSET pending : T /= {} /\ Cardinality(T) <= MaxBatch}}

\* one call of CanAccept; ret keeps the batch, the outcome of its calls and what it returned
CanAcceptReaping(ids, in) ==
    LET r == CanAcceptRun(in, head, harmony_task_history)
    IN /\ ret' = [op |-> "CanAccept", ids |-> ids, ts |-> head, fail |-> in.fail,
                  sorted |-> [i \in DOMAIN in.sorted |-> in.sorted[i].task_id],
                  histErr |-> in.histErr, res |-> r.res, err |-> r.err]
       /\ wdpost_partition_tasks' =
             wdpost_partition_tasks \ {x \in Range(in.tasks) : PeriodElapsed(dlInfo(x, head))}
       /\ UNCHANGED <<parallel, execs, head, harmony_task, harmony_task_history,
                      harmony_test, wdpost_proofs, owned>>
CanAccept(ids, in) ==
    LET r == CanAcceptRun(in, head, harmony_task_history)
    IN /\ ret' = [op |-> "CanAccept", ids |-> ids, ts |-> head, fail |-> in.fail,
                  sorted |-> [i \in DOMAIN in.sorted |-> in.sorted[i].task_id],
                  histErr |-> in.histErr, res |-> r.res, err |-> r.err]
       /\ UNCHANGED <<parallel, execs, head, wdpost_partition_tasks, harmony_task, harmony_task_history,
                      harmony_test, wdpost_proofs, owned>>

Bid ==
    /\ ret.op = "none"
    /\ \E ids \in Batches(harmony_task) :
          \E in \in CanAcceptInputs(ids, wdpost_partition_tasks, head) : CanAccept(ids, in)

\* the tasks a batch gets bids for when every call CanAccept makes succeeds
Admitted(ids, table, ts, hist) ==
    UNION {{b.TaskID : b \in Range(CanAcceptRun(in, ts, hist).res)} :
              in \in {x \in CanAcceptInputs(ids, table, ts) : x.fail = "none" /\ x.histErr = {}}}

(***************************************************************************)
(* The runtime's scheduling: it offers a batch of the tasks it holds to    *)
(* CanAccept and assigns one of those bid for.                             *)
(***************************************************************************)
Pending == harmony_task \ {owned}

Schedule ==
    /\ owned = 0
    /\ \E S \in (SUBSET Pending) \ {{}} :
          \E t \in Admitted(CHOOSE ids \in Perms(S) : TRUE, wdpost_partition_tasks, head,
                            harmony_task_history) :
              owned' = t
    /\ ret' = NoRet
    /\ UNCHANGED <<parallel, execs, head, wdpost_partition_tasks, harmony_task, harmony_task_history,
                   harmony_test, wdpost_proofs>>

(***************************************************************************)
(* Do: the partition prover.                                               *)
(***************************************************************************)
\* the call of Do that fails, if any
DoFails == {"none", "queryRow", "chainHead", "idAddress", "tipset", "doPartition",
            "marshalCBOR", "marshalJSON", "updateTest", "insert", "insertCount"}

\* isTestTask(): SELECT COUNT(*) FROM harmony_test, memoized; a failed query leaves 0
isTestTask(taskID, htest, testErr) == taskID \in DOMAIN htest /\ ~testErr

\* the closure's answer at one decision point of Do; asked: an earlier decision point
\* of this call already ran the query. testTask memoizes the first answer, so the
\* query runs once and every later call repeats what it gave
testTaskRequeried(taskID, htest, testErr, asked) ==
    IF asked THEN isTestTask(taskID, htest, testErr) ELSE taskID \in DOMAIN htest
testTaskAt(taskID, htest, testErr, asked) == isTestTask(taskID, htest, testErr)

\* deadline.PeriodElapsed() && !isTestTask()
StaleReapTests(elapsed, test) == elapsed /\ test
StaleReap(elapsed, test) == elapsed /\ ~test

\* the deadline Do proves: a test task whose challenge is in the future is moved one
\* proving period back
ProvenDeadlineUnshifted(row, h, test) ==
    NewDeadlineInfo(row.proving_period_start, row.deadline_index, h)
ProvenDeadline(row, h, test) ==
    LET deadline == NewDeadlineInfo(row.proving_period_start, row.deadline_index, h)
    IN IF deadline.Challenge > h /\ test
       THEN NewDeadlineInfo(row.proving_period_start - deadline.WPoStProvingPeriod,
                            row.deadline_index, h - deadline.WPoStProvingPeriod)
       ELSE deadline

\* DoPartition: the proof of one partition against the challenge tipset, or an error
DoPartition(ts, spID, deadline, partIdx, fail) ==
    IF fail = "doPartition" THEN [ok |-> FALSE, ts |-> ts]
    ELSE [ok |-> TRUE, ts |-> ts]

ProofRow(row, deadline) ==
    [sp_id |-> row.sp_id, proving_period_start |-> row.proving_period_start,
     deadline |-> deadline.Index, partition |-> row.partition_index,
     submit_at_epoch |-> deadline.Open, submit_by_epoch |-> deadline.Close]

\* if n != 1 after the INSERT
InsertFailedOnOne(n) == n = 1
InsertFailed(n) == n /= 1

\* what one call of Do did: its return values, the call that failed ("none" when all
\* succeeded), the steps it reached (challenge-tipset lookup, DoPartition), the proof
\* rows it inserted, whether it wrote harmony_test.result, and the tipset it handed
\* to DoPartition
DoResult(done, err, at, lookup, proved, insert, wrote, ts) ==
    [done |-> done, err |-> err, at |-> at, lookup |-> lookup, proved |-> proved,
     insert |-> insert, wrote |-> wrote, ts |-> ts]

NoTipSet == [ok |-> FALSE, h |-> 0, f |-> 0]

DoFailed(at, lookup, proved, ts) == DoResult(FALSE, at, at, lookup, proved, <<>>, FALSE, ts)

\* testErr: the harmony_test query of isTestTask fails; fail: the other call that fails
DoRun(taskID, table, hd, htest, testErr, fail) ==
    LET rows == {r \in table : r.task_id = taskID}
    IN IF rows = {} \/ fail = "queryRow" THEN DoFailed("queryRow", FALSE, FALSE, NoTipSet)
       ELSE IF fail = "chainHead" THEN DoFailed("chainHead", FALSE, FALSE, NoTipSet)
       ELSE
       LET row == CHOOSE r \in rows : TRUE
           unshifted == NewDeadlineInfo(row.proving_period_start, row.deadline_index, hd.h)
           elapsed == PeriodElapsed(unshifted)
           future == unshifted.Challenge > hd.h
           \* isTestTask() at the stale check, at the shift and before persisting
           atReap == testTaskAt(taskID, htest, testErr, FALSE)
           atShift == testTaskAt(taskID, htest, testErr, elapsed)
           test == testTaskAt(taskID, htest, testErr, elapsed \/ future)
       IN IF StaleReap(elapsed, atReap)
          THEN DoResult(TRUE, "nil", "none", FALSE, FALSE, <<>>, FALSE, NoTipSet)
          ELSE
          LET deadline == ProvenDeadline(row, hd.h, atShift)
              ts == ChainGetTipSetAfterHeight(deadline.Challenge, hd)
              postOut == DoPartition(ts, row.sp_id, deadline, row.partition_index, fail)
              \* rows the INSERT affects
              n == IF fail = "insertCount" THEN 0 ELSE 1
          IN IF fail = "idAddress" THEN DoFailed("idAddress", FALSE, FALSE, NoTipSet)
             ELSE IF fail = "tipset" \/ ~ts.ok THEN DoFailed("tipset", TRUE, FALSE, NoTipSet)
             ELSE IF ~postOut.ok THEN DoFailed("doPartition", TRUE, TRUE, postOut.ts)
             ELSE IF fail = "marshalCBOR" THEN DoFailed("marshalCBOR", TRUE, TRUE, postOut.ts)
             ELSE IF test
                  THEN IF fail = "marshalJSON" THEN DoFailed("marshalJSON", TRUE, TRUE, postOut.ts)
                       ELSE IF fail = "updateTest" THEN DoFailed("updateTest", TRUE, TRUE, postOut.ts)
                       ELSE DoResult(TRUE, "nil", "none", TRUE, TRUE, <<>>, TRUE, postOut.ts)
                  ELSE IF fail = "insert" THEN DoFailed("insert", TRUE, TRUE, postOut.ts)
                       ELSE IF InsertFailed(n)
                       THEN DoResult(FALSE, "nil", "insertCount", TRUE, TRUE,
                                     IF n = 0 THEN <<>> ELSE <<ProofRow(row, deadline)>>,
                                     FALSE, postOut.ts)
                       ELSE DoResult(TRUE, "nil", "none", TRUE, TRUE,
                                     IF n = 0 THEN <<>> ELSE <<ProofRow(row, deadline)>>,
                                     FALSE, postOut.ts)

\* INSERT INTO wdpost_proofs: the table has no uniqueness rule
InsertProofs(proofs, rows) ==
    IF rows = <<>> THEN proofs
    ELSE LET p == rows[1]
         IN IF p \in DOMAIN proofs THEN [proofs EXCEPT ![p] = @ + 1]
            ELSE (p :> 1) @@ proofs

TotalFailures ==
    LET RECURSIVE Sum(_)
        Sum(D) == IF D = {} THEN 0
                  ELSE LET d == CHOOSE x \in D : TRUE
                       IN harmony_task_history[d] + Sum(D \ {d})
    IN Sum(DOMAIN harmony_task_history)

\* TypeDetails(): what the task type tells the runtime
TypeDetailsOneMore == [MaxFailures |-> MaxFailures + 1]
TypeDetails == [MaxFailures |-> MaxFailures]

\* the runtime retires a task when Do succeeds or its failures reach MaxFailures
Retired(done, failures) == done \/ failures >= TypeDetails.MaxFailures

\* the runtime runs Do on the task it assigned and records the outcome: success
\* deletes the task, a failure adds a history row and the MaxFailures-th deletes it
Do(taskID, testErr, fail) ==
    LET r == DoRun(taskID, wdpost_partition_tasks, head, harmony_test, testErr, fail)
        failures == FailCount(harmony_task_history, taskID) + 1
    IN /\ wdpost_proofs' = InsertProofs(wdpost_proofs, r.insert)
       /\ harmony_test' = IF r.wrote THEN [harmony_test EXCEPT ![taskID] = "json"]
                          ELSE harmony_test
       /\ harmony_task_history' =
             IF r.done THEN harmony_task_history
             ELSE (taskID :> failures) @@ harmony_task_history
       /\ harmony_task' = IF Retired(r.done, failures)
                          THEN harmony_task \ {taskID} ELSE harmony_task
       /\ owned' = 0
       /\ ret' = [op |-> "Do", taskID |-> taskID, head |-> head, r |-> r]
       /\ UNCHANGED <<parallel, execs, head, wdpost_partition_tasks>>

RunTask ==
    /\ owned /= 0
    /\ \E testErr \in BOOLEAN, fail \in DoFails :
          /\ DoRun(owned, wdpost_partition_tasks, head, harmony_test, testErr, fail).done
                \/ TotalFailures < MaxFaults
          /\ Do(owned, testErr, fail)

(***************************************************************************)
(* A test task: a task of this type registered with a harmony_test row.    *)
(***************************************************************************)
SeedTestTask ==
    /\ Cardinality(DOMAIN harmony_test) < MaxTests
    /\ Cardinality(wdpost_partition_tasks) < MaxTasks
    /\ \E m \in Actors, ahead \in 0..1 :
          LET di == StateMinerProvingDeadline(m, head)
              tid == [SpID |-> m, ProvingPeriodStart |-> di.PeriodStart,
                      DeadlineIndex |-> di.Index + ahead, PartitionIndex |-> 0]
              db == AddTaskFunc(Store(wdpost_partition_tasks, harmony_task), tid)
          IN /\ PeriodStarted(di)
             /\ db.tasks /= wdpost_partition_tasks
             /\ wdpost_partition_tasks' = db.tasks
             /\ harmony_task' = db.live
             /\ harmony_test' = (NewTaskID(wdpost_partition_tasks) :> "") @@ harmony_test
    /\ ret' = NoRet
    /\ UNCHANGED <<parallel, execs, head, harmony_task_history, wdpost_proofs, owned>>

\* the chain scheduler applies another tipset (forward, backward or across forks)
HeadChange ==
    /\ \E ts \in TipSets : ts /= head /\ head' = ts
    /\ ret' = NoRet
    /\ UNCHANGED <<parallel, execs, wdpost_partition_tasks, harmony_task, harmony_task_history,
                   harmony_test, wdpost_proofs, owned>>

Next == HeadChange \/ Watcher \/ RemotePropose \/ SeedTestTask \/ Schedule \/ RunTask

Spec == Init /\ [][Next]_vars

(***************************************************************************)
(* CanAccept on its own: one call on a batch of a store that holds up to   *)
(* MaxBatch tasks of the identities the watcher proposes.                  *)
(***************************************************************************)
AllProposals == UNION {Proposals(ts) : ts \in TipSets}

BidTables ==
    UNION {{{PartitionTaskRow(i, s[i]) : i \in 1..n} :
               s \in {x \in [1..n -> AllProposals] : \A i, j \in 1..n : i /= j => x[i] /= x[j]}} :
           n \in 0..MaxBatch}

InitBid ==
    /\ parallel = NewGate(MaxParallel)
    /\ execs = [e \in Provers |-> IdleExec]
    /\ head \in TipSets
    /\ wdpost_partition_tasks \in BidTables
    /\ harmony_task = {r.task_id : r \in wdpost_partition_tasks}
    /\ harmony_task_history \in [harmony_task -> 0..MaxHist]
    /\ harmony_test = <<>>
    /\ wdpost_proofs = <<>>
    /\ owned = 0
    /\ ret = NoRet

NextBid == Bid

SpecBid == InitBid /\ [][NextBid]_vars

(***************************************************************************)
(* CanAccept offered candidates of which one may have no row in            *)
(* wdpost_partition_tasks, on a store of up to MaxTasks tasks.             *)
(***************************************************************************)
InitOffer ==
    /\ InitBid
    /\ Cardinality(wdpost_partition_tasks) <= MaxTasks

\* the candidate ids: those of the tasks held, and one the table has no row for
Candidates == harmony_task \cup {NewTaskID(wdpost_partition_tasks)}

Offer ==
    /\ ret.op = "none"
    /\ \E ids \in Batches(Candidates) :
          \E in \in CanAcceptInputs(ids, wdpost_partition_tasks, head) : CanAccept(ids, in)

NextOffer == Offer

SpecOffer == InitOffer /\ [][NextOffer]_vars

(***************************************************************************)
(* The retries of enqueued tasks: the runtime schedules and runs the tasks *)
(* of a table until each is retired.                                       *)
(***************************************************************************)
RetryTables == {t \in BidTables : Cardinality(t) \in 1..MaxTasks}

InitRetry ==
    /\ parallel = NewGate(MaxParallel)
    /\ execs = [e \in Provers |-> IdleExec]
    /\ head \in TipSets
    /\ wdpost_partition_tasks \in RetryTables
    /\ harmony_task = {r.task_id : r \in wdpost_partition_tasks}
    /\ harmony_task_history = <<>>
    /\ harmony_test = <<>>
    /\ wdpost_proofs = <<>>
    /\ owned = 0
    /\ ret = NoRet

\* the runtime runs Do on the task it assigned, whatever failed before
Retry ==
    /\ owned /= 0
    /\ \E testErr \in BOOLEAN, fail \in DoFails : Do(owned, testErr, fail)

NextRetry == Schedule \/ Retry

SpecRetry == InitRetry /\ [][NextRetry]_vars

(***************************************************************************)
(* Fair scheduling with the calls of CanAccept and the reads of Do         *)
(* succeeding and the head moving forward only.                            *)
(***************************************************************************)
\* a head change to a higher tipset
Advance ==
    /\ \E ts \in TipSets : ts.h > head.h /\ head' = ts
    /\ ret' = NoRet
    /\ UNCHANGED <<parallel, execs, wdpost_partition_tasks, harmony_task, harmony_task_history,
                   harmony_test, wdpost_proofs, owned>>

\* Do with its reads succeeding: only proof generation may fail
RunReads ==
    /\ owned /= 0
    /\ \E fail \in {"none", "doPartition"} : Do(owned, FALSE, fail)

NextFair == Advance \/ Schedule \/ RunReads

SpecFair == InitRetry /\ [][NextFair]_vars /\ WF_vars(Schedule) /\ WF_vars(RunReads)

(***************************************************************************)
(* DoPartition's prover step: the parallelism gate and the skipped-sector  *)
(* recovery loop of the proof executions of one process.                   *)
(***************************************************************************)
InitProve ==
    /\ parallel \in {NewGate(n) : n \in 0..MaxParallel}
    /\ execs = [e \in Provers |-> IdleExec]
    /\ head \in TipSets
    /\ wdpost_partition_tasks = {}
    /\ harmony_task = {}
    /\ harmony_task_history = <<>>
    /\ harmony_test = <<>>
    /\ wdpost_proofs = <<>>
    /\ owned = 0
    /\ ret = NoRet

storeVars == <<head, wdpost_partition_tasks, harmony_task, harmony_task_history,
               harmony_test, wdpost_proofs, owned, ret>>

\* the ways one prover invocation ends
ProverOutcomes == {"ok", "error", "timeout", "cancelled"}

\* the loop gives up when the bound of prover invocations is reached
SkipsNeverExhausted(calls) == FALSE
SkipsExhausted(calls) == calls >= MaxProverCalls

\* the challenge set of the next invocation: the skipped sectors are removed
RemainingAll(challenged, ps) == challenged
Remaining(challenged, ps) == challenged \ ps

\* a Do enters DoPartition with the provable set of its partition
StartProof(e) ==
    /\ execs[e].pc = "idle"
    /\ execs' = [execs EXCEPT ![e] = [IdleExec EXCEPT !.pc = "gate", !.challenged = Sectors]]
    /\ UNCHANGED <<parallel, storeVars>>

\* before the prover invocation: take a slot of the gate when there is one
Acquire(e) ==
    /\ execs[e].pc = "gate"
    /\ parallel.open => parallel.held < parallel.cap
    /\ parallel' = IF parallel.open THEN [parallel EXCEPT !.held = @ + 1] ELSE parallel
    /\ execs' = [execs EXCEPT ![e].pc = "prover", ![e].calls = @ + 1]
    /\ UNCHANGED storeVars

\* the execution is cancelled while it waits for a slot
AbandonGate(e) ==
    /\ execs[e].pc = "gate"
    /\ execs' = [execs EXCEPT ![e].pc = "done", ![e].out = "failed"]
    /\ UNCHANGED <<parallel, storeVars>>

\* the prover invocation ends: the slot is released; skipped sectors ps are declared
\* faulty and leave the challenge set, and the invocation is repeated within the bound
ProverReturns(e, outcome, ps) ==
    LET x == execs[e]
        left == Remaining(x.challenged, ps)
    IN /\ x.pc = "prover"
       /\ ps \subseteq x.challenged
       /\ outcome /= "ok" => ps = {}
       /\ parallel' = IF parallel.open THEN [parallel EXCEPT !.held = @ - 1] ELSE parallel
       /\ execs' = [execs EXCEPT ![e] =
             IF outcome /= "ok"
             THEN [x EXCEPT !.pc = "done", !.out = "failed", !.last = {}]
             ELSE IF ps = {}
             THEN [x EXCEPT !.pc = "done", !.out = "proof", !.last = {}]
             ELSE IF SkipsExhausted(x.calls) \/ left = {}
             THEN [x EXCEPT !.pc = "done", !.out = "failed", !.last = ps,
                            !.skipped = @ \cup ps, !.challenged = left]
             ELSE [x EXCEPT !.pc = "gate", !.last = ps,
                            !.skipped = @ \cup ps, !.challenged = left]]
       /\ UNCHANGED storeVars

\* Do returns and the execution slot of the runtime is free again
FinishProof(e) ==
    /\ execs[e].pc = "done"
    /\ execs' = [execs EXCEPT ![e] = IdleExec]
    /\ UNCHANGED <<parallel, storeVars>>

Start == \E e \in Provers : StartProof(e)
Enter == \E e \in Provers : Acquire(e)
Abandon == \E e \in Provers : AbandonGate(e)
Leave == \E e \in Provers, outcome \in ProverOutcomes, ps \in SUBSET Sectors :
            ProverReturns(e, outcome, ps)
Finish == \E e \in Provers : FinishProof(e)

NextProve == Start \/ Enter \/ Abandon \/ Leave \/ Finish

SpecProve == InitProve /\ [][NextProve]_vars

(***************************************************************************)
(* Properties.                                                             *)
(***************************************************************************)
\* the row of a task id
TaskRow(id) == CHOOSE r \in wdpost_partition_tasks : r.task_id = id

\* the last operation was a watcher invocation that returned nil
WatcherReturnedNil == ret.op = "processHeadChange" /\ ret.err = "nil"

\* the last operation was a Do that read its identity row and the chain head
DoReadHead == ret.op = "Do" /\ ret.r.at \notin {"queryRow", "chainHead"}

\* the deadline of the task of the last Do at the head that Do read
DoDeadline ==
    NewDeadlineInfo(TaskRow(ret.taskID).proving_period_start,
                    TaskRow(ret.taskID).deadline_index, ret.head.h)

DoOnTestTask == ret.taskID \in DOMAIN harmony_test

ProofKey(p) ==
    [SpID |-> p.sp_id, ProvingPeriodStart |-> p.proving_period_start,
     DeadlineIndex |-> p.deadline, PartitionIndex |-> p.partition]

\* C1 (as claimed): after a watcher invocation on an applied tipset returns, every
\* partition of the current deadline of every tracked miner whose period has started
\* and not elapsed has its row in wdpost_partition_tasks.
NoLostDeadlines ==
    WatcherReturnedNil =>
        \A m \in Actors :
            LET di == StateMinerProvingDeadline(m, ret.apply)
            IN (PeriodStarted(di) /\ ~PeriodElapsed(di)) =>
                  \A p \in 0..(StateMinerPartitions(m, di.Index, ret.apply) - 1) :
                      [SpID |-> m, ProvingPeriodStart |-> di.PeriodStart,
                       DeadlineIndex |-> di.Index, PartitionIndex |-> p]
                          \in Identities(wdpost_partition_tasks)

\* C2: wdpost_proofs holds at most one row per (sp_id, proving_period_start,
\* deadline, partition), whatever the watcher, the runtime and Do have done.
WriteOnceProofs ==
    \A p, q \in DOMAIN wdpost_proofs :
        /\ wdpost_proofs[p] = 1
        /\ ProofKey(p) = ProofKey(q) => p = q

\* a proof is recorded, its task is consumed, and a watcher invocation that proposes
\* the same identity again has just returned
ReproposedAfterProof ==
    /\ WatcherReturnedNil
    /\ \E p \in DOMAIN wdpost_proofs :
          /\ ProofKey(p) \in Proposals(ret.apply)
          /\ \E r \in wdpost_partition_tasks :
                wdTaskIdentity(r) = ProofKey(p) /\ r.task_id \notin harmony_task

\* C3 (as claimed): a watcher invocation repeated on the same applied tipset, with no
\* other change to the store in between, leaves the identity tuples and the row count
\* of wdpost_partition_tasks as they were after the first invocation.
IdempotentEnqueue ==
    (WatcherReturnedNil /\ ret.run.again) =>
        /\ Identities(wdpost_partition_tasks) = ret.run.first
        /\ Cardinality(wdpost_partition_tasks) = ret.run.rows

\* C4: no two rows of wdpost_partition_tasks share an identity or a task id, every
\* task of the runtime has its row, and a proposal whose identity is already in the
\* table commits no row and no task.
UniqueTaskIdentity ==
    /\ \A r1, r2 \in wdpost_partition_tasks :
          (wdTaskIdentity(r1) = wdTaskIdentity(r2) \/ r1.task_id = r2.task_id) => r1 = r2
    /\ harmony_task \subseteq {r.task_id : r \in wdpost_partition_tasks}
    /\ (ret.op = "tf" /\ ret.tid \in Identities(ret.before)) =>
          (wdpost_partition_tasks = ret.before /\ harmony_task = ret.live)

\* a proposal of another process has just collided with a row that is there
ProposalCollided ==
    /\ ret.op = "tf"
    /\ ret.tid \in Identities(ret.before)
    /\ ret.tid \in Identities(wdpost_partition_tasks)

\* the rows a CanAccept batch hydrated, and the stale ones among them
Hydrated == SelectTasks(wdpost_partition_tasks, ret.ids)
StaleHydrated == {r \in Hydrated : PeriodElapsed(dlInfo(r, ret.ts))}
CanAcceptHydrated == ret.op = "CanAccept" /\ ret.fail = "none"
BidsFor(id) == {i \in DOMAIN ret.res : ret.res[i].TaskID = id}

\* C5: when a hydrated task of the batch is stale, CanAccept returns exactly the
\* stale tasks, each with bid 1000, and no live task.
StalePriority ==
    (CanAcceptHydrated /\ StaleHydrated /= {}) =>
        /\ ret.err = "nil"
        /\ \A i \in DOMAIN ret.res :
              /\ ret.res[i].TaskID \in {r.task_id : r \in StaleHydrated}
              /\ ret.res[i].Bid = StaleBid
        /\ \A r \in StaleHydrated : BidsFor(r.task_id) /= {}
        /\ \A r \in Hydrated \ StaleHydrated : BidsFor(r.task_id) = {}

\* a batch of stale and live tasks got its bids
MixedBatchBid ==
    /\ CanAcceptHydrated
    /\ Cardinality(StaleHydrated) >= 2
    /\ Hydrated \ StaleHydrated /= {}
    /\ Len(ret.res) >= 2

\* the bid of a task before its failure penalty, its Open epoch and its place in the input
BasePenalty(id) == IF id \in ret.histErr THEN 0 ELSE FailCount(harmony_task_history, id)
BaseBidOf(id) == ret.res[CHOOSE i \in BidsFor(id) : TRUE].Bid + BasePenalty(id)
OpenOf(id) == dlInfo(TaskRow(id), ret.ts).Open
InputPos(id) == CHOOSE i \in DOMAIN ret.ids : ret.ids[i] = id
LiveBatch == CanAcceptHydrated /\ StaleHydrated = {}
HydratedIDs == {r.task_id : r \in Hydrated}

\* C6 (as claimed): with no stale task in the batch, a task with a smaller Open has a
\* larger base bid, and of two tasks with the same Open the one earlier in the input
\* has the larger base bid.
UrgencyOrderingInputTies ==
    LiveBatch =>
        \A a, b \in HydratedIDs :
            (OpenOf(a) < OpenOf(b) \/ (OpenOf(a) = OpenOf(b) /\ InputPos(a) < InputPos(b)))
                => BaseBidOf(a) > BaseBidOf(b)

\* C6 (amended): with no stale task in the batch, every task gets a bid, a task with a
\* smaller Open has a larger base bid, so a task with the smallest Open has the largest,
\* and tasks with the same Open get different base bids (in no order the input fixes).
UrgencyOrdering ==
    LiveBatch =>
        /\ \A a \in HydratedIDs : BidsFor(a) /= {}
        /\ \A a, b \in HydratedIDs :
              /\ OpenOf(a) < OpenOf(b) => BaseBidOf(a) > BaseBidOf(b)
              /\ a /= b => BaseBidOf(a) /= BaseBidOf(b)
        /\ HydratedIDs /= {} =>
              \E a \in HydratedIDs :
                  /\ \A b \in HydratedIDs : OpenOf(a) <= OpenOf(b)
                  /\ \A b \in HydratedIDs \ {a} : BaseBidOf(a) > BaseBidOf(b)

\* a batch of live tasks, two with the same Open and one opening later, got its bids,
\* the tie going to the task later in the input
TieBrokenAgainstInput ==
    /\ LiveBatch
    /\ \E a, b, c \in HydratedIDs :
          /\ OpenOf(a) = OpenOf(b) /\ InputPos(a) < InputPos(b)
          /\ BaseBidOf(a) < BaseBidOf(b)
          /\ OpenOf(a) < OpenOf(c) /\ BaseBidOf(c) < BaseBidOf(a)

\* C7: Do on a task with no harmony_test row whose proving period has elapsed at the
\* head it read returns (true, nil) and neither looks up a challenge tipset, nor
\* proves, nor inserts a proof row, nor writes harmony_test.
StaleReapNoProof ==
    (DoReadHead /\ ~DoOnTestTask /\ PeriodElapsed(DoDeadline)) =>
        /\ ret.r.done /\ ret.r.err = "nil"
        /\ ~ret.r.lookup /\ ~ret.r.proved
        /\ ret.r.insert = <<>> /\ ~ret.r.wrote

\* a stale task that is no test task has just been reaped
StaleTaskReaped ==
    /\ DoReadHead /\ ~DoOnTestTask /\ PeriodElapsed(DoDeadline)
    /\ ret.r.done

\* C8 (as claimed): Do on a task that has a harmony_test row never inserts into
\* wdpost_proofs, whatever its queries return, and when it succeeds it has written
\* harmony_test.result.
TestTaskDiversion ==
    (ret.op = "Do" /\ DoOnTestTask) =>
        /\ ret.r.insert = <<>>
        /\ ret.r.done => ret.r.wrote

\* C9 (as claimed): Do on a live task that is no test task and whose Challenge epoch
\* is above the head it read neither looks up a challenge tipset, nor proves, nor
\* inserts a proof row.
FutureChallengeNotExecuted ==
    (DoReadHead /\ ~DoOnTestTask /\ ~PeriodElapsed(DoDeadline)
        /\ DoDeadline.Challenge > ret.head.h /\ ret.r.at /= "idAddress") =>
        /\ ~ret.r.lookup /\ ~ret.r.proved /\ ret.r.insert = <<>>

\* C10 (as claimed): Do on a task that is no test task, at a head at or past the
\* Close epoch of its deadline, inserts no proof row, and returns success when none
\* of its calls fails.
HardDeadline ==
    (DoReadHead /\ ~DoOnTestTask /\ ret.head.h >= DoDeadline.Close) =>
        /\ ret.r.insert = <<>>
        /\ ret.r.at = "none" => ret.r.done

\* C11 (as claimed): every Do on a task that is no test task and that returns success
\* has inserted exactly one row into wdpost_proofs in that call.
OneProofPerSuccess ==
    (ret.op = "Do" /\ ~DoOnTestTask /\ ret.r.done) => Len(ret.r.insert) = 1

\* C11 (amended): a Do on a task that is no test task and that returns success has
\* inserted exactly one row into wdpost_proofs in that call when the proving period
\* of the task had not elapsed at the head it read, and none when it had (stale reap).
OneProofPerLiveSuccess ==
    (ret.op = "Do" /\ ~DoOnTestTask /\ ret.r.done) =>
        /\ DoReadHead
        /\ Len(ret.r.insert) = (IF PeriodElapsed(DoDeadline) THEN 0 ELSE 1)
        /\ \A i \in DOMAIN ret.r.insert : ret.r.insert[i] \in DOMAIN wdpost_proofs

\* a live task that is no test task has just been proven with success
LiveTaskProven ==
    /\ ret.op = "Do" /\ ~DoOnTestTask /\ ret.r.done
    /\ ~PeriodElapsed(DoDeadline)
    /\ Len(ret.r.insert) = 1

\* the returned pairs follow the order sort.Slice left, which is ascending in Open
BidsInSortedOrder ==
    /\ Len(ret.res) = Cardinality(HydratedIDs)
    /\ Len(ret.sorted) = Len(ret.res)
    /\ \A i \in DOMAIN ret.res : ret.res[i].TaskID = ret.sorted[i]
    /\ \A i, j \in DOMAIN ret.sorted : i < j => OpenOf(ret.sorted[i]) <= OpenOf(ret.sorted[j])

\* C12 (as claimed): in a batch with no stale task and n hydrated tasks, the task at
\* 0-based position i of the ascending-Open order gets the bid n + 10 - i - f, f the
\* number of its harmony_task_history rows with result = false.
BidFormulaHistoryRows ==
    LiveBatch =>
        /\ BidsInSortedOrder
        /\ \A i \in DOMAIN ret.res :
              ret.res[i].Bid = Cardinality(HydratedIDs) + 10 - (i - 1)
                                 - FailCount(harmony_task_history, ret.res[i].TaskID)

\* C12 (amended): in a batch with no stale task and n hydrated tasks, the task at
\* 0-based position i of the ascending-Open order gets the bid n + 10 - i - f, f the
\* number of its harmony_task_history rows with result = false when the query
\* counting them succeeds and 0 when that query fails; the bid is not clamped.
BidFormula ==
    LiveBatch =>
        /\ BidsInSortedOrder
        /\ \A i \in DOMAIN ret.res :
              ret.res[i].Bid = Cardinality(HydratedIDs) + 10 - (i - 1)
                                 - BasePenalty(ret.res[i].TaskID)

\* a batch of live tasks got its bids, one lowered by a failure, one whose failure
\* count could not be read
PenalisedBatchBid ==
    /\ LiveBatch
    /\ Len(ret.res) >= 2
    /\ \E i, j \in DOMAIN ret.res :
          /\ i /= j
          /\ ret.res[i].TaskID \notin ret.histErr
          /\ FailCount(harmony_task_history, ret.res[i].TaskID) > 0
          /\ ret.res[j].TaskID \in ret.histErr
          /\ FailCount(harmony_task_history, ret.res[j].TaskID) > 0

\* the bid returned for a task, and its place in the order sort.Slice left
FinalBidOf(id) == ret.res[CHOOSE i \in BidsFor(id) : TRUE].Bid
SortedPos(id) == CHOOSE i \in DOMAIN ret.sorted : ret.sorted[i] = id
SmallestOpen(id) == \A b \in HydratedIDs \ {id} : OpenOf(id) < OpenOf(b)

\* C13 (as claimed): in a batch with no stale task, the final bid of the task with
\* the smallest Open is strictly greater than the final bid of every other task of
\* the batch, whatever the failure counts.
PenaltyKeepsMostUrgentFirst ==
    LiveBatch =>
        \A a \in HydratedIDs :
            SmallestOpen(a) => \A b \in HydratedIDs \ {a} : FinalBidOf(a) > FinalBidOf(b)

\* C13 (amended): in a batch with no stale task, a task sorted before another has the
\* strictly greater final bid exactly when its penalty exceeds the other's by less
\* than the distance of their positions; so the task with the smallest Open has the
\* strictly greatest final bid when its penalty is not above that of any other task.
PenaltyMayReorder ==
    LiveBatch =>
        /\ \A a, b \in HydratedIDs :
              SortedPos(a) < SortedPos(b) =>
                  (FinalBidOf(a) > FinalBidOf(b)
                      <=> BasePenalty(a) - BasePenalty(b) < SortedPos(b) - SortedPos(a))
        /\ \A a \in HydratedIDs :
              (SmallestOpen(a) /\ \A b \in HydratedIDs : BasePenalty(a) <= BasePenalty(b))
                  => \A b \in HydratedIDs \ {a} : FinalBidOf(a) > FinalBidOf(b)

\* the task with the smallest Open of a live batch has failed before and its final
\* bid is not above that of a task opening later
MostUrgentOutbid ==
    /\ LiveBatch
    /\ \E a, b \in HydratedIDs :
          /\ SmallestOpen(a) /\ a /= b
          /\ BasePenalty(a) > 0
          /\ FinalBidOf(a) <= FinalBidOf(b)

\* C14: when paramsReady returns false, CanAccept returns no (task id, bid) pair and
\* no error, whatever the batch.
DeclinesWhenParamsNotReady ==
    (ret.op = "CanAccept" /\ ret.fail = "notReady") =>
        /\ ret.res = <<>>
        /\ ret.err = "nil"

\* a batch holding a stale and a live task was declined for params not ready
BatchDeclined ==
    /\ ret.op = "CanAccept" /\ ret.fail = "notReady"
    /\ StaleHydrated /= {}
    /\ Hydrated \ StaleHydrated /= {}

\* C15 (as claimed): when the INSERT into wdpost_proofs succeeds with a number of
\* affected rows other than one, Do returns done = false with a non-nil error.
RowCountErrorReported ==
    (ret.op = "Do" /\ ret.r.at = "insertCount") =>
        /\ ~ret.r.done
        /\ ret.r.err /= "nil"

\* C16: no task has more than 5 failed Do executions; a Do retires its task exactly
\* when it succeeds or records the 5th failure; a retired task is never a task of the
\* runtime again, so it is neither offered to CanAccept nor run by Do.
RetryBound ==
    [][/\ \A t \in DOMAIN harmony_task_history' : harmony_task_history'[t] <= 5
       /\ \A r \in wdpost_partition_tasks : r.task_id \in harmony_task' => r.task_id \in harmony_task
       /\ owned' /= 0 => owned' \in harmony_task'
       /\ ret'.op = "Do" =>
             /\ ret'.taskID = owned /\ owned \in harmony_task
             /\ ret'.taskID \notin harmony_task'
                   <=> (ret'.r.done \/ FailCount(harmony_task_history', ret'.taskID) = 5)
             /\ ~ret'.r.done =>
                   FailCount(harmony_task_history', ret'.taskID)
                       = FailCount(harmony_task_history, ret'.taskID) + 1]_vars

\* the 5th failure of a task has just been recorded and the task retired
GaveUpAfterFive ==
    /\ ret.op = "Do" /\ ~ret.r.done
    /\ FailCount(harmony_task_history, ret.taskID) = 5
    /\ ret.taskID \notin harmony_task

\* task id is held by the runtime and its proving period has elapsed at the head
StaleTask(id) ==
    /\ id \in harmony_task
    /\ PeriodElapsed(dlInfo(TaskRow(id), head))

\* task id has just been reaped by Do: success with no proof, and the task deleted
ReapedNow(id) ==
    /\ ret.op = "Do" /\ ret.taskID = id
    /\ ret.r.done /\ ret.r.insert = <<>> /\ ~ret.r.proved
    /\ id \notin harmony_task

\* C17: under fair scheduling, with the calls of CanAccept and the reads of Do
\* succeeding and the head never moving back, every task whose proving period has
\* elapsed is eventually bid for, run by Do, reaped without a proof and deleted.
StaleEventuallyReaped ==
    \A id \in 1..MaxTasks : StaleTask(id) ~> ReapedNow(id)

\* a stale task has been reaped while a live task is still held by the runtime
ReapedAheadOfLive ==
    /\ \E id \in 1..MaxTasks : ReapedNow(id) /\ PeriodElapsed(DoDeadline)
    /\ \E t \in harmony_task : ~PeriodElapsed(dlInfo(TaskRow(t), head))

\* the deadline the last Do proved: DoDeadline, moved one period back for a test task
\* whose challenge is above the head
DoProvenDeadline ==
    IF DoOnTestTask /\ DoDeadline.Challenge > ret.head.h
    THEN NewDeadlineInfo(TaskRow(ret.taskID).proving_period_start - WPoStProvingPeriod,
                         TaskRow(ret.taskID).deadline_index, ret.head.h - WPoStProvingPeriod)
    ELSE DoDeadline

\* C18: the challenge tipset Do hands to proof generation is the tipset at height
\* deadline.Challenge on the chain of the head read in that call, whatever fork the
\* task was enqueued on; the task row carries no tipset key.
ChallengeOnHeadChain ==
    /\ \A r \in wdpost_partition_tasks :
          DOMAIN r = {"task_id", "sp_id", "proving_period_start", "deadline_index",
                      "partition_index"}
    /\ (ret.op = "Do" /\ ret.r.proved) =>
          /\ ret.r.ts.ok
          /\ ret.r.ts.f = ret.head.f
          /\ ret.r.ts.h <= ret.head.h
          /\ ret.r.ts.h = DoProvenDeadline.Challenge

\* a task enqueued on the rival fork (only there the deadline has a second partition)
\* has been proved with the canonical chain as head
ProvedAfterReorg ==
    /\ ret.op = "Do" /\ ret.r.proved /\ ret.r.done
    /\ TaskRow(ret.taskID).partition_index = 1
    /\ ret.head.f = 0
    /\ ret.r.ts.f = 0

\* the executions inside the external prover invocation
InsideProver == {e \in Provers : execs[e].pc = "prover"}

\* C19: with parallel > 0 at most parallel executions are inside the prover invocation
\* at once and the held slots are exactly the executions inside, whatever way each
\* invocation ended, so none is held when none is inside; with parallel = 0 there is
\* no gate.
ParallelGate ==
    /\ parallel.arg > 0 =>
          /\ parallel.open
          /\ Cardinality(InsideProver) <= parallel.arg
          /\ parallel.held = Cardinality(InsideProver)
    /\ parallel.arg = 0 => (~parallel.open /\ parallel.held = 0)

\* the gate is full while an execution that has been through it before waits again
GateFullWhileWaiting ==
    /\ parallel.arg > 0
    /\ parallel.held = parallel.arg
    /\ \E e \in Provers : execs[e].pc = "gate" /\ execs[e].calls >= 1

\* Do at head hd on a live task whose DoPartition fails
DoOnFailedPartition(hd) ==
    DoRun(1, {PartitionTaskRow(1, [SpID |-> ActorBase, ProvingPeriodStart |-> 0,
                                   DeadlineIndex |-> 1, PartitionIndex |-> 0])},
          hd, <<>>, FALSE, "doPartition")

\* C20: one DoPartition invokes the prover at most MaxProverCalls times; it yields a
\* proof only from an invocation without skipped sectors, and when the last allowed
\* invocation still reports skipped sectors it fails, and Do then returns failure and
\* inserts no proof.
SkippedLoopBounded ==
    /\ \A e \in Provers :
          /\ execs[e].calls <= MaxProverCalls
          /\ execs[e].out = "proof" => execs[e].last = {}
          /\ (execs[e].pc = "done" /\ execs[e].last /= {}) => execs[e].out = "failed"
    /\ \A hd \in TipSets :
          DoOnFailedPartition(hd).proved =>
              (~DoOnFailedPartition(hd).done /\ DoOnFailedPartition(hd).insert = <<>>)

\* the last allowed invocation still reported a skipped sector, with sectors left to
\* prove, and the execution failed
SkipsPersisted ==
    \E e \in Provers :
        /\ execs[e].pc = "done" /\ execs[e].out = "failed"
        /\ execs[e].calls = MaxProverCalls
        /\ execs[e].last /= {} /\ execs[e].challenged /= {}

\* C21: in every execution the sectors the prover reported as skipped are declared
\* faulty and are in the challenge set of no later prover invocation, and a proof
\* comes only from an invocation that reported no skipped sector.
PartialFaultRecovery ==
    \A e \in Provers :
        execs[e].pc /= "idle" =>
            /\ execs[e].last \subseteq execs[e].skipped
            /\ execs[e].skipped \cap execs[e].challenged = {}
            /\ execs[e].skipped \cup execs[e].challenged = Sectors
            /\ execs[e].out = "proof" => (execs[e].pc = "done" /\ execs[e].last = {})

\* a proof was produced by the second invocation, after a sector skipped by the first
\* was declared faulty and left out
ProvedAfterSkip ==
    \E e \in Provers :
        /\ execs[e].out = "proof"
        /\ execs[e].calls = 2
        /\ execs[e].skipped /= {}

\* the identities one invocation of the watcher leaves in the table, from the store
\* as it is, on applied tipset apply, ranging over the miners in the given order, with
\* every RPC succeeding; the reverted tipset is no input of it
WatcherLeaves(apply, order) ==
    Identities(VisitActors(Store(wdpost_partition_tasks, harmony_task), order, apply,
                           NoFail).db.tasks)

\* C22 (as claimed): from the same store and the same applied tipset, two invocations
\* of the watcher propose the same rows, whatever the reverted tipset and whatever
\* came before.
WatcherStateless ==
    \A o1, o2 \in ActorOrders : WatcherLeaves(head, o1) = WatcherLeaves(head, o2)

\* what the chain says of miner m at tipset tsk
StartedAt(m, tsk) == tsk.h >= StateMinerProvingDeadline(m, tsk).PeriodStart
ProperIdentity(tid, tsk) ==
    /\ tid.SpID \in Actors
    /\ StartedAt(tid.SpID, tsk)
    /\ tid.ProvingPeriodStart = StateMinerProvingDeadline(tid.SpID, tsk).PeriodStart
    /\ tid.DeadlineIndex = StateMinerProvingDeadline(tid.SpID, tsk).Index
    /\ tid.PartitionIndex >= 0
    /\ tid.PartitionIndex < StateMinerPartitions(tid.SpID, tid.DeadlineIndex, tsk)

\* C23: every row a watcher invocation inserts has the identity (tracked miner, period
\* start and index of its current deadline at the applied tipset, a partition index
\* below the number of partitions the chain returns), none for a miner whose period
\* has not started; and it changes no row that was there.
WatcherInsertsProperRows ==
    [][ret'.op = "processHeadChange" =>
          /\ wdpost_partition_tasks \subseteq wdpost_partition_tasks'
          /\ \A r \in wdpost_partition_tasks' \ wdpost_partition_tasks :
                ProperIdentity(wdTaskIdentity(r), ret'.apply)]_vars

\* a watcher invocation on the rival fork has left the row of the second partition,
\* with a miner tracked that has not started proving
SecondPartitionEnqueued ==
    /\ ret.op = "processHeadChange" /\ ~ret.run.again
    /\ ret.apply.f = 1
    /\ \E r \in wdpost_partition_tasks :
          /\ r.partition_index = 1
          /\ ProperIdentity(wdTaskIdentity(r), ret.apply)
    /\ \E m \in Actors : ~StartedAt(m, ret.apply)

\* the candidate ids of a CanAccept batch that have no row
NoRowIDs == Range(ret.ids) \ {r.task_id : r \in wdpost_partition_tasks}

\* C24: every task_id CanAccept returns is an offered candidate id that has a row, and
\* is returned at most once; a candidate id with no row is not returned and makes no error.
ResultAmongOfferedRows ==
    ret.op = "CanAccept" =>
        /\ \A i \in DOMAIN ret.res :
              /\ ret.res[i].TaskID \in Range(ret.ids)
              /\ ret.res[i].TaskID \in {r.task_id : r \in wdpost_partition_tasks}
        /\ \A i, j \in DOMAIN ret.res : ret.res[i].TaskID = ret.res[j].TaskID => i = j
        /\ \A id \in NoRowIDs : BidsFor(id) = {}
        /\ ret.fail = "none" => ret.err = "nil"

\* a batch with a candidate that has no row and only one of the two tasks held got a bid
RowlessCandidateOffered ==
    /\ CanAcceptHydrated
    /\ NoRowIDs /= {}
    /\ Len(ret.res) = 1
    /\ Cardinality(wdpost_partition_tasks) = 2

\* C25: a call of CanAccept, whatever it returns, leaves wdpost_partition_tasks,
\* wdpost_proofs, harmony_test and harmony_task_history as they were.
CanAcceptReadOnly ==
    [][ret'.op = "CanAccept" =>
          /\ wdpost_partition_tasks' = wdpost_partition_tasks
          /\ wdpost_proofs' = wdpost_proofs
          /\ harmony_test' = harmony_test
          /\ harmony_task_history' = harmony_task_history]_vars

\* CanAccept bid for the stale tasks of a batch, and their rows are still there
StaleBidRowsKept ==
    /\ CanAcceptHydrated
    /\ StaleHydrated /= {}
    /\ Len(ret.res) = Cardinality(StaleHydrated)

\* C26: when the failure-history query of a live task fails, CanAccept returns no
\* error, a bid for every task of the batch, and for that task its base bid n + 10 - i.
HistoryErrorNoPenalty ==
    LiveBatch =>
        \A id \in ret.histErr \cap HydratedIDs :
            /\ ret.err = "nil"
            /\ \A a \in HydratedIDs : Cardinality(BidsFor(a)) = 1
            /\ \A k \in BidsFor(id) :
                  /\ ret.sorted[k] = id
                  /\ ret.res[k].Bid = Cardinality(HydratedIDs) + BidBase - (k - 1)

\* the history query failed for a task that has failures on record, in a batch of two
HistoryErrorOnFailedTask ==
    /\ LiveBatch
    /\ Cardinality(HydratedIDs) = 2
    /\ \E id \in ret.histErr \cap HydratedIDs : FailCount(harmony_task_history, id) > 0

\* C29 (as claimed): CanAccept returns the pairs of the live tasks in the relative
\* order their ids had in the input batch.
ResultInInputOrder ==
    LiveBatch =>
        \A i, j \in DOMAIN ret.res :
            i < j => InputPos(ret.res[i].TaskID) < InputPos(ret.res[j].TaskID)

\* C29 (amended): CanAccept returns one pair for each live task, in ascending order of
\* Open (the order the sort left), which need not be the order of the input batch.
ResultInOpenOrder ==
    LiveBatch =>
        /\ \A a \in HydratedIDs : Cardinality(BidsFor(a)) = 1
        /\ \A i, j \in DOMAIN ret.res :
              i < j => OpenOf(ret.res[i].TaskID) <= OpenOf(ret.res[j].TaskID)

\* the task given later in the batch has the smaller Open and is returned first
ResultReordered ==
    /\ LiveBatch
    /\ \E i, j \in DOMAIN ret.res :
          /\ i < j
          /\ OpenOf(ret.res[i].TaskID) < OpenOf(ret.res[j].TaskID)
          /\ InputPos(ret.res[i].TaskID) > InputPos(ret.res[j].TaskID)

\* C27: a call of Do that returns done = false has inserted no row into wdpost_proofs,
\* has not written harmony_test.result, and has left the task rows as they were.
FailureLeavesStateUnchanged ==
    [][(ret'.op = "Do" /\ ~ret'.r.done) =>
          /\ wdpost_proofs' = wdpost_proofs
          /\ harmony_test' = harmony_test
          /\ wdpost_partition_tasks' = wdpost_partition_tasks]_vars

\* Do failed at the INSERT, after the proof was generated
FailedAtInsert ==
    /\ ret.op = "Do" /\ ~ret.r.done
    /\ ret.r.proved
    /\ ret.r.at = "insert"

\* C28: for a test task whose deadline.Challenge is above the head height, Do proves
\* the deadline of the same index whose period start, Open, Close and Challenge are
\* each one proving period earlier, at current epoch head height minus one proving
\* period; for a task that is not a test task the deadline is the one of the row.
FutureChallengeShift ==
    DoReadHead =>
        LET row == TaskRow(ret.taskID)
            d == DoDeadline
            shifted == ProvenDeadline(row, ret.head.h, TRUE)
        IN /\ ProvenDeadline(row, ret.head.h, FALSE) = d
           /\ d.Challenge > ret.head.h =>
                 /\ shifted.Index = d.Index
                 /\ shifted.PeriodStart = d.PeriodStart - WPoStProvingPeriod
                 /\ shifted.Open = d.Open - WPoStProvingPeriod
                 /\ shifted.Close = d.Close - WPoStProvingPeriod
                 /\ shifted.Challenge = d.Challenge - WPoStProvingPeriod
                 /\ shifted.CurrentEpoch = ret.head.h - WPoStProvingPeriod
           /\ (ret.r.proved /\ DoOnTestTask /\ d.Challenge > ret.head.h) =>
                 ret.r.ts.h = d.Challenge - WPoStProvingPeriod
           /\ (ret.r.proved /\ ~DoOnTestTask) =>
                 /\ ret.r.ts.h = d.Challenge
                 /\ \A i \in DOMAIN ret.r.insert :
                       /\ ret.r.insert[i].submit_at_epoch = d.Open
                       /\ ret.r.insert[i].submit_by_epoch = d.Close

\* a test task whose challenge was above the head has been proved one period back
TestTaskProvedOnePeriodBack ==
    /\ ret.op = "Do" /\ ret.r.proved /\ ret.r.done /\ ret.r.wrote
    /\ DoOnTestTask
    /\ DoDeadline.Challenge > ret.head.h
    /\ ret.r.ts.h >= 0

\* C30 (as claimed): after a watcher invocation that returned nil, when (miner,
\* deadline) has rows for some of the partitions the chain reports at the applied
\* tipset, it has a row for every one of them.
DiscardDoesNotStopEnqueue ==
    WatcherReturnedNil =>
        \A m \in Actors :
            LET di == StateMinerProvingDeadline(m, ret.apply)
            IN (/\ StartedAt(m, ret.apply)
                /\ \E r \in wdpost_partition_tasks :
                      /\ r.sp_id = m
                      /\ r.proving_period_start = di.PeriodStart
                      /\ r.deadline_index = di.Index)
               => \A p \in 0..(StateMinerPartitions(m, di.Index, ret.apply) - 1) :
                     [SpID |-> m, ProvingPeriodStart |-> di.PeriodStart,
                      DeadlineIndex |-> di.Index, PartitionIndex |-> p]
                         \in Identities(wdpost_partition_tasks)

\* C31: every wdpost_proofs row carries sp_id, proving_period_start, deadline index
\* and partition index of the task row whose Do produced it, submit_at_epoch = Open
\* and submit_by_epoch = Close of the deadline (proving_period_start, deadline_index)
\* not moved back, with submit_at_epoch < submit_by_epoch; and isTestTask answers the
\* same at every decision point of one Do call, also when the harmony_test lookup fails.
ProofRowOfTaskRow ==
    /\ \A p \in DOMAIN wdpost_proofs :
          /\ \E r \in wdpost_partition_tasks :
                /\ p.sp_id = r.sp_id
                /\ p.proving_period_start = r.proving_period_start
                /\ p.deadline = r.deadline_index
                /\ p.partition = r.partition_index
          /\ p.submit_at_epoch = p.proving_period_start + p.deadline * WPoStChallengeWindow
          /\ p.submit_by_epoch = p.submit_at_epoch + WPoStChallengeWindow
          /\ p.submit_at_epoch < p.submit_by_epoch
    /\ ret.op = "Do" =>
          /\ \A i \in DOMAIN ret.r.insert :
                /\ ret.r.insert[i].sp_id = TaskRow(ret.taskID).sp_id
                /\ ret.r.insert[i].proving_period_start = TaskRow(ret.taskID).proving_period_start
                /\ ret.r.insert[i].deadline = TaskRow(ret.taskID).deadline_index
                /\ ret.r.insert[i].partition = TaskRow(ret.taskID).partition_index
                /\ ret.r.insert[i].submit_at_epoch = DoDeadline.Open
                /\ ret.r.insert[i].submit_by_epoch = DoDeadline.Close
          /\ \A testErr \in BOOLEAN :
                testTaskAt(ret.taskID, harmony_test, testErr, FALSE)
                    = testTaskAt(ret.taskID, harmony_test, testErr, TRUE)

\* Do on a task that has a harmony_test row inserted a proof row (the lookup failed),
\* and the row carries Open and Close of the task row's deadline
TestTaskProofUnshifted ==
    /\ ret.op = "Do" /\ ret.r.done
    /\ DoOnTestTask
    /\ Len(ret.r.insert) = 1
    /\ ret.r.insert[1] \in DOMAIN wdpost_proofs
    /\ ret.r.insert[1].submit_at_epoch = DoDeadline.Open
====
